---- MODULE Spec2Model ----
(***************************************************************************)
(* Attention-backend selection, dispatch, implementation construction and  *)
(* forward validation of the encode-only pipeline, plus the prefill-only   *)
(* workflow wiring.                                                         *)
(*                                                                         *)
(* Conventions:                                                            *)
(*   - a Python Optional[T] is a set with at most one element: {} is None, *)
(*     {v} is the value v;                                                 *)
(*   - the outcome of a call is a record: exc = "" when the call returned  *)
(*     (ret holds the returned value as an Optional), otherwise exc is the *)
(*     Python exception class and msg / named describe its message;        *)
(*   - an enum member is written by its member name;                       *)
(*   - a Python str built with += is the sequence of the pieces appended.  *)
(***************************************************************************)
EXTENDS Integers, Sequences, FiniteSets, TLC

VARIABLES
    VLLM_ATTENTION_BACKEND, \* envs.VLLM_ATTENTION_BACKEND : Optional[str]
    device_capability,      \* current_platform.get_device_capability()[0]
    calls,                  \* the selector / dispatcher calls so far, with their outcomes
    impl,                   \* Optional: the implementation instance the layer holds
    lastInit,               \* Optional: the last EncodeOnlyFlashAttentionImpl(...) call
    lastForward,            \* Optional: the last impl.forward(...) call
    lastBuild,              \* Optional: the last metadata build
    WorkflowClass,          \* class attributes of PrefillOnlyWorkflow
    workflows               \* the workflows returned by PrefillOnlyWorkflow.from_engine

vars == <<VLLM_ATTENTION_BACKEND, device_capability, calls,
          impl, lastInit, lastForward, lastBuild, WorkflowClass, workflows>>

selectorVars == <<VLLM_ATTENTION_BACKEND, device_capability, calls>>
implVars == <<impl, lastInit, lastForward>>
builderVars == <<lastBuild>>
workflowVars == <<WorkflowClass, workflows>>

(***************************************************************************)
(* Outcomes                                                                *)
(***************************************************************************)
Returned(v) == [exc |-> "", ret |-> {v}, msg |-> "", named |-> {}]

ReturnedNone == [exc |-> "", ret |-> {}, msg |-> "", named |-> {}]

Raised(e, m, n) == [exc |-> e, ret |-> {}, msg |-> m, named |-> n]

(***************************************************************************)
(* selector.py                                                             *)
(***************************************************************************)
Backend_members ==
    {"FLASH_ATTN", "XFORMERS", "ROCM_FLASH", "TORCH_SDPA",
     "OPENVINO", "FLASHINFER", "PALLAS", "IPEX"}

\* strings an operator may put in the environment that are not member names
OtherNames == {"flash_attn", "Xformers", "BOGUS", ""}

OverrideValues == {{}} \cup {{n} : n \in Backend_members \cup OtherNames}

CapabilityValues == {7, 8, 9}

DtypeValues == {"float16", "bfloat16", "float32"}

SlidingWindowValues == {{}, {128}}

Upper(s) ==
    CASE s = "flash_attn" -> "FLASH_ATTN"
      [] s = "Xformers" -> "XFORMERS"
      [] OTHER -> s

\* mutant: the lookup ignores case
backend_name_to_enum_nocase(backend_name) ==
    IF Upper(backend_name) \notin Backend_members
    THEN Raised("ValueError", "Invalid attention backend", {backend_name})
    ELSE Returned(Upper(backend_name))

backend_name_to_enum(backend_name) ==
    IF backend_name \notin Backend_members
    THEN Raised("ValueError", "Invalid attention backend", {backend_name})
    ELSE Returned(backend_name)

\* mutant: the downgrade rules are applied whatever the candidate is
which_attn_to_use_always_downgrade(num_heads, head_size, num_kv_heads, sliding_window, dtype) ==
    LET parsed == IF VLLM_ATTENTION_BACKEND # {}
                  THEN backend_name_to_enum(CHOOSE n \in VLLM_ATTENTION_BACKEND : TRUE)
                  ELSE Returned("FLASH_ATTN")
    IN  IF parsed.exc # "" THEN parsed
        ELSE IF device_capability < 8 THEN Returned("XFORMERS")
        ELSE IF dtype \notin {"float16", "bfloat16"} THEN Returned("XFORMERS")
        ELSE IF sliding_window # {} THEN Returned("XFORMERS")
        ELSE parsed

\* mutant: the capability test is off by one (<= 8)
which_attn_to_use_cap_off_by_one(num_heads, head_size, num_kv_heads, sliding_window, dtype) ==
    LET parsed == IF VLLM_ATTENTION_BACKEND # {}
                  THEN backend_name_to_enum(CHOOSE n \in VLLM_ATTENTION_BACKEND : TRUE)
                  ELSE Returned("FLASH_ATTN")
    IN  IF parsed.exc # "" THEN parsed
        ELSE IF parsed = Returned("FLASH_ATTN")
        THEN IF device_capability <= 8 THEN Returned("XFORMERS")
             ELSE IF dtype \notin {"float16", "bfloat16"} THEN Returned("XFORMERS")
             ELSE IF sliding_window # {} THEN Returned("XFORMERS")
             ELSE parsed
        ELSE parsed

\* mutant: a downgrade is remembered and sticks for every later call
which_attn_to_use_sticky(num_heads, head_size, num_kv_heads, sliding_window, dtype) ==
    LET parsed == IF VLLM_ATTENTION_BACKEND # {}
                  THEN backend_name_to_enum(CHOOSE n \in VLLM_ATTENTION_BACKEND : TRUE)
                  ELSE Returned("FLASH_ATTN")
    IN  IF parsed.exc # "" THEN parsed
        ELSE IF parsed = Returned("FLASH_ATTN")
        THEN IF \E i \in 1..Len(calls) : calls[i].sel = Returned("XFORMERS")
             THEN Returned("XFORMERS")
             ELSE IF device_capability < 8 THEN Returned("XFORMERS")
             ELSE IF dtype \notin {"float16", "bfloat16"} THEN Returned("XFORMERS")
             ELSE IF sliding_window # {} THEN Returned("XFORMERS")
             ELSE parsed
        ELSE parsed

which_attn_to_use(num_heads, head_size, num_kv_heads, sliding_window, dtype) ==
    LET parsed == IF VLLM_ATTENTION_BACKEND # {}
                  THEN backend_name_to_enum(CHOOSE n \in VLLM_ATTENTION_BACKEND : TRUE)
                  ELSE Returned("FLASH_ATTN")
    IN  IF parsed.exc # "" THEN parsed
        ELSE IF parsed = Returned("FLASH_ATTN")
        THEN IF device_capability < 8 THEN Returned("XFORMERS")
             ELSE IF dtype \notin {"float16", "bfloat16"} THEN Returned("XFORMERS")
             ELSE IF sliding_window # {} THEN Returned("XFORMERS")
             ELSE parsed
        ELSE parsed

\* the dispatch of AttnBackend.from_engine on the selected backend
from_engine_dispatch(backend) ==
    IF backend = "FLASH_ATTN" THEN Returned("EncodeOnlyFlashAttentionBackend")
    ELSE IF backend = "XFORMERS" THEN ReturnedNone
    ELSE IF backend = "TORCH_SDPA" THEN Returned("EncodeOnlyTorchSDPABackend")
    ELSE Raised("ValueError", "Invalid attention backend.", {})

\* number of selector / dispatcher calls a behaviour records
MaxCalls == 3

\* the model configurations an engine hands to the selector
NumHeadsValues == {8}

SelectorHeadSizeValues == {64}

NumKVHeadsValues == {8}

\* a direct call of AttnBackend.which_attn_to_use
WhichAttnToUse ==
    /\ Len(calls) < MaxCalls
    /\ \E num_heads \in NumHeadsValues, head_size \in SelectorHeadSizeValues,
          num_kv_heads \in NumKVHeadsValues,
          sliding_window \in SlidingWindowValues, dtype \in DtypeValues :
        LET sel == which_attn_to_use(num_heads, head_size, num_kv_heads,
                                     sliding_window, dtype)
        IN  calls' = Append(calls, [fn |-> "which_attn_to_use",
                                    sliding_window |-> sliding_window,
                                    dtype |-> dtype, sel |-> sel, out |-> sel])
    /\ UNCHANGED <<VLLM_ATTENTION_BACKEND, device_capability>>
    /\ UNCHANGED <<implVars, builderVars, workflowVars>>

\* AttnBackend.from_engine: selection, then dispatch on the selected backend
FromEngine ==
    /\ Len(calls) < MaxCalls
    /\ \E num_heads \in NumHeadsValues, head_size \in SelectorHeadSizeValues,
          num_kv_heads \in NumKVHeadsValues,
          sliding_window \in SlidingWindowValues, dtype \in DtypeValues :
        LET sel == which_attn_to_use(num_heads, head_size, num_kv_heads,
                                     sliding_window, dtype)
            out == IF sel.exc # "" THEN sel
                   ELSE from_engine_dispatch(CHOOSE x \in sel.ret : TRUE)
        IN  calls' = Append(calls, [fn |-> "from_engine",
                                    sliding_window |-> sliding_window,
                                    dtype |-> dtype, sel |-> sel, out |-> out])
    /\ UNCHANGED <<VLLM_ATTENTION_BACKEND, device_capability>>
    /\ UNCHANGED <<implVars, builderVars, workflowVars>>

NextSelector == WhichAttnToUse \/ FromEngine

(***************************************************************************)
(* Selector and dispatcher properties                                      *)
(***************************************************************************)
OverrideParses == VLLM_ATTENTION_BACKEND # {} /\ VLLM_ATTENTION_BACKEND \subseteq Backend_members

FlashAttnUsable(c) ==
    /\ device_capability >= 8
    /\ c.dtype \in {"float16", "bfloat16"}
    /\ c.sliding_window = {}

\* C1 (as stated): with an override that parses, select returns exactly the
\* override for every capability, dtype and sliding window, FLASH_ATTN included.
C1_OverrideAlwaysReturned ==
    \A i \in 1..Len(calls) :
        OverrideParses => calls[i].sel = [exc |-> "", ret |-> VLLM_ATTENTION_BACKEND,
                                          msg |-> "", named |-> {}]

\* C1 (amended): an override that parses to a name other than FLASH_ATTN is
\* returned unchanged for every capability, dtype and sliding window; an
\* override of FLASH_ATTN still goes through the downgrade rules and is
\* returned only when capability >= 8, dtype is float16/bfloat16 and no
\* sliding window is set, XFORMERS being returned otherwise.
C1_OverrideReturnedUnlessFlashAttn ==
    \A i \in 1..Len(calls) :
        OverrideParses =>
            IF VLLM_ATTENTION_BACKEND = {"FLASH_ATTN"}
            THEN calls[i].sel = IF FlashAttnUsable(calls[i])
                                THEN Returned("FLASH_ATTN")
                                ELSE Returned("XFORMERS")
            ELSE calls[i].sel = [exc |-> "", ret |-> VLLM_ATTENTION_BACKEND,
                                 msg |-> "", named |-> {}]

C1_Witness ==
    /\ VLLM_ATTENTION_BACKEND = {"TORCH_SDPA"}
    /\ device_capability = 7
    /\ \E i \in 1..Len(calls) :
        /\ calls[i].dtype = "float32"
        /\ calls[i].sliding_window # {}
        /\ calls[i].sel = Returned("TORCH_SDPA")

Unregistered == {"XFORMERS", "ROCM_FLASH", "OPENVINO", "FLASHINFER", "PALLAS", "IPEX"}

\* C2: for every backend name selection produces, from_engine either returns
\* a backend descriptor or raises; it raises for every name that has no
\* registered implementation and never completes without a descriptor.
C2_ResolveReturnsDescriptorOrFails ==
    \A i \in 1..Len(calls) :
        (calls[i].fn = "from_engine" /\ calls[i].sel.exc = "") =>
            /\ calls[i].out.exc = "" => calls[i].out.ret # {}
            /\ calls[i].sel.ret \subseteq Unregistered => calls[i].out.exc = "ValueError"

\* C3: without an override select returns FLASH_ATTN exactly when capability
\* >= 8, dtype is float16 or bfloat16 and no sliding window is set, and
\* XFORMERS in every other case.
C3_DefaultSelection ==
    \A i \in 1..Len(calls) :
        VLLM_ATTENTION_BACKEND = {} =>
            /\ calls[i].sel = Returned("FLASH_ATTN") <=> FlashAttnUsable(calls[i])
            /\ ~FlashAttnUsable(calls[i]) => calls[i].sel = Returned("XFORMERS")

C3_Witness ==
    /\ VLLM_ATTENTION_BACKEND = {}
    /\ device_capability = 8
    /\ \E i, j \in 1..Len(calls) :
        /\ calls[i].sel = Returned("FLASH_ATTN")
        /\ calls[j].sel = Returned("XFORMERS")

\* C4: an override that is not exactly one of the eight member names makes
\* select raise the invalid-backend ValueError naming it, whatever the
\* capability, dtype and sliding window; with an override that parses, or
\* none, select returns a member name and does not raise.
C4_InvalidOverrideRejected ==
    \A i \in 1..Len(calls) :
        IF VLLM_ATTENTION_BACKEND # {} /\ ~OverrideParses
        THEN calls[i].sel = Raised("ValueError", "Invalid attention backend",
                                   VLLM_ATTENTION_BACKEND)
        ELSE /\ calls[i].sel.exc = ""
             /\ Cardinality(calls[i].sel.ret) = 1
             /\ calls[i].sel.ret \subseteq Backend_members

C4_Witness ==
    /\ VLLM_ATTENTION_BACKEND = {"flash_attn"}
    /\ \E i \in 1..Len(calls) : calls[i].sel.exc = "ValueError"

get_supported_head_sizes == {32, 64, 96, 128, 160, 192, 224, 256}

\* constructor arguments a model layer may pass
ImplNumHeadsValues == {8}

ImplNumKVHeadsValues == {0, 3, 8}

ImplHeadSizeValues == {48, 64, 128}

\* softmax scale in thousandths (125 is 1/sqrt(64))
ScaleValues == {125}

AlibiSlopesValues == {{}, {<<1, 2>>}}

BlocksparseParamsValues == {{}, {"blocksparse"}}

LogitsSoftCapValues == {{}, {30}}

InitArgs ==
    [num_heads : ImplNumHeadsValues, head_size : ImplHeadSizeValues,
     scale : ScaleValues, num_kv_heads : ImplNumKVHeadsValues,
     alibi_slopes : AlibiSlopesValues, sliding_window : SlidingWindowValues,
     blocksparse_params : BlocksparseParamsValues,
     logits_soft_cap : LogitsSoftCapValues]

\* the attributes __init__ assigns (lines 64-77)
InitSelf(a) ==
    [num_heads |-> a.num_heads,
     head_size |-> a.head_size,
     scale |-> a.scale,
     num_kv_heads |-> a.num_kv_heads,
     alibi_slopes |-> a.alibi_slopes,
     sliding_window |-> IF a.sliding_window # {}
                        THEN LET w == CHOOSE x \in a.sliding_window : TRUE IN <<w, w>>
                        ELSE <<-1, -1>>,
     logits_soft_cap |-> IF a.logits_soft_cap = {} THEN 0
                         ELSE CHOOSE x \in a.logits_soft_cap : TRUE]

\* mutant: the sliding-window rejection is missing
EncodeOnlyFlashAttentionImpl_init_no_window_check(a) ==
    IF a.blocksparse_params # {}
    THEN Raised("ValueError", "FlashAttention does not support block-sparse attention.", {})
    ELSE IF a.num_kv_heads = 0
    THEN Raised("ZeroDivisionError", "integer modulo by zero", {})
    ELSE IF a.num_heads % a.num_kv_heads # 0
    THEN Raised("AssertionError", "", {})
    ELSE IF a.head_size \notin get_supported_head_sizes
    THEN Raised("ValueError", "Head size is not supported by FlashAttention.", {a.head_size})
    ELSE Returned(InitSelf(a))

\* mutant: the head-size test comes before the sliding-window test
EncodeOnlyFlashAttentionImpl_init_head_size_first(a) ==
    IF a.blocksparse_params # {}
    THEN Raised("ValueError", "FlashAttention does not support block-sparse attention.", {})
    ELSE IF a.num_kv_heads = 0
    THEN Raised("ZeroDivisionError", "integer modulo by zero", {})
    ELSE IF a.num_heads % a.num_kv_heads # 0
    THEN Raised("AssertionError", "", {})
    ELSE IF a.head_size \notin get_supported_head_sizes
    THEN Raised("ValueError", "Head size is not supported by FlashAttention.", {a.head_size})
    ELSE IF a.sliding_window # {}
    THEN Raised("ValueError", "Sliding window is not supported in FlashAttention.", {})
    ELSE Returned(InitSelf(a))

\* EncodeOnlyFlashAttentionImpl.__init__: returns the instance or raises
EncodeOnlyFlashAttentionImpl_init(a) ==
    IF a.blocksparse_params # {}
    THEN Raised("ValueError", "FlashAttention does not support block-sparse attention.", {})
    ELSE IF a.num_kv_heads = 0
    THEN Raised("ZeroDivisionError", "integer modulo by zero", {})
    ELSE IF a.num_heads % a.num_kv_heads # 0
    THEN Raised("AssertionError", "", {})
    ELSE IF a.sliding_window # {}
    THEN Raised("ValueError", "Sliding window is not supported in FlashAttention.", {})
    ELSE IF a.head_size \notin get_supported_head_sizes
    THEN Raised("ValueError", "Head size is not supported by FlashAttention.", {a.head_size})
    ELSE Returned(InitSelf(a))

AttentionType == {"ENCODER", "DECODER", "ENCODER_DECODER"}

\* k_scale / v_scale in tenths (10 is 1.0)
KVScaleValues == {10, 5}

\* query.shape = (num_tokens, hidden_size)
QueryShapeValues == {<<10, 512>>, <<10, 100>>}

ForwardArgs ==
    [query_shape : QueryShapeValues, attn_type : AttentionType,
     k_scale : KVScaleValues, v_scale : KVScaleValues]

\* the arguments forward hands to flash_attn_varlen_func (lines 131-144)
KernelArgs(self, f) ==
    [q_shape |-> <<(f.query_shape[1] * f.query_shape[2]) \div (self.num_heads * self.head_size),
                   self.num_heads, self.head_size>>,
     softmax_scale |-> self.scale,
     causal |-> FALSE,
     window_size |-> self.sliding_window,
     alibi_slopes |-> self.alibi_slopes,
     softcap |-> self.logits_soft_cap,
     self |-> self]

\* mutant: the key/value scale assertion is missing
forward_no_scale_check(self, f) ==
    IF f.attn_type # "ENCODER"
    THEN [out |-> Raised("NotImplementedError", "not implemented for EncodeOnlyFlashAttentionImpl", {}),
          kernel |-> {}]
    ELSE IF (f.query_shape[1] * f.query_shape[2]) % (self.num_heads * self.head_size) # 0
    THEN [out |-> Raised("RuntimeError", "shape is invalid for input size", {}),
          kernel |-> {}]
    ELSE [out |-> Returned(f.query_shape), kernel |-> {KernelArgs(self, f)}]

\* EncodeOnlyFlashAttentionImpl.forward: the outcome (the shape of the
\* returned tensor, or the exception) and the kernel invocation it made
forward(self, f) ==
    IF f.attn_type # "ENCODER"
    THEN [out |-> Raised("NotImplementedError", "not implemented for EncodeOnlyFlashAttentionImpl", {}),
          kernel |-> {}]
    ELSE IF ~(f.k_scale = 10 /\ f.v_scale = 10)
    THEN [out |-> Raised("AssertionError", "key/v_scale is not supported in FlashAttention.", {}),
          kernel |-> {}]
    ELSE IF (f.query_shape[1] * f.query_shape[2]) % (self.num_heads * self.head_size) # 0
    THEN [out |-> Raised("RuntimeError", "shape is invalid for input size", {}),
          kernel |-> {}]
    ELSE [out |-> Returned(f.query_shape), kernel |-> {KernelArgs(self, f)}]

\* impl = EncodeOnlyFlashAttentionImpl(...): the layer holds the new instance
\* only when __init__ returns; when it raises the name keeps its old binding
Construct ==
    /\ \E a \in InitArgs :
        LET r == EncodeOnlyFlashAttentionImpl_init(a)
        IN  /\ lastInit' = {[args |-> a, out |-> [r EXCEPT !.ret = {}]]}
            /\ impl' = IF r.exc = "" THEN r.ret ELSE impl
    /\ UNCHANGED lastForward
    /\ UNCHANGED <<selectorVars, builderVars, workflowVars>>

\* impl.forward(query, key, value, attn_metadata, k_scale, v_scale, attn_type)
Forward ==
    /\ impl # {}
    /\ \E f \in ForwardArgs :
        LET self == CHOOSE x \in impl : TRUE
            r == forward(self, f)
        IN  lastForward' = {[args |-> f, out |-> r.out, kernel |-> r.kernel]}
    /\ UNCHANGED <<impl, lastInit>>
    /\ UNCHANGED <<selectorVars, builderVars, workflowVars>>

NextImpl == Construct \/ Forward

(***************************************************************************)
(* Implementation properties                                               *)
(***************************************************************************)
UnsupportedFeatureMessages ==
    {"FlashAttention does not support block-sparse attention.",
     "Sliding window is not supported in FlashAttention."}

\* C5: for constructor arguments with num_heads % num_kv_heads = 0,
\* construction raises the unsupported-feature ValueError when block-sparse
\* parameters or a sliding window are given, otherwise the head-size
\* ValueError naming the size when head_size is not a supported size, and
\* returns otherwise; no other exception ends it.
C5_ConstructOutcome ==
    \A c \in lastInit :
        (c.args.num_kv_heads # 0 /\ c.args.num_heads % c.args.num_kv_heads = 0) =>
            IF c.args.blocksparse_params # {} \/ c.args.sliding_window # {}
            THEN /\ c.out.exc = "ValueError"
                 /\ c.out.msg \in UnsupportedFeatureMessages
            ELSE IF c.args.head_size \notin {32, 64, 96, 128, 160, 192, 224, 256}
            THEN c.out = Raised("ValueError", "Head size is not supported by FlashAttention.",
                                {c.args.head_size})
            ELSE c.out.exc = ""

C5_Witness ==
    \E c \in lastInit :
        /\ c.args.num_heads % 8 = 0 /\ c.args.num_kv_heads = 8
        /\ c.args.blocksparse_params = {} /\ c.args.sliding_window # {}
        /\ c.args.head_size = 48
        /\ c.out.msg = "Sliding window is not supported in FlashAttention."

\* C6: forward raises NotImplementedError whenever attn_type is not ENCODER,
\* whatever the scales are, and the scale AssertionError whenever attn_type is
\* ENCODER and k_scale or v_scale is not 1.0; in both cases the kernel is not
\* invoked and nothing is returned.
C6_ForwardRejections ==
    \A f \in lastForward :
        /\ f.args.attn_type # "ENCODER" =>
              /\ f.out.exc = "NotImplementedError"
              /\ f.kernel = {} /\ f.out.ret = {}
        /\ (f.args.attn_type = "ENCODER" /\ (f.args.k_scale # 10 \/ f.args.v_scale # 10)) =>
              /\ f.out.exc = "AssertionError"
              /\ f.kernel = {} /\ f.out.ret = {}

C6_Witness ==
    \E f \in lastForward :
        /\ f.args.attn_type = "ENCODER"
        /\ f.args.k_scale = 10 /\ f.args.v_scale # 10
        /\ f.out.exc = "AssertionError"

\* C8: every kernel invocation is made on an instance that a successful
\* construction returned: its head size is a supported one, the window size
\* passed is the disabled pair (-1, -1) and causal is false.
C8_KernelOnlyOnValidInstance ==
    \A f \in lastForward : \A k \in f.kernel :
        /\ \E a \in InitArgs : EncodeOnlyFlashAttentionImpl_init(a) = Returned(k.self)
        /\ k.self.head_size \in get_supported_head_sizes
        /\ k.q_shape[3] \in get_supported_head_sizes
        /\ k.window_size = <<-1, -1>>
        /\ k.causal = FALSE

C8_Witness ==
    /\ \E f \in lastForward : f.kernel # {}
    /\ \E c \in lastInit : c.args.sliding_window # {} /\ c.out.exc = "ValueError"

(***************************************************************************)
(* Sequence metadata builder (EncodeOnlyAttentionMetadataBuilder)          *)
(***************************************************************************)
\* number of sequences in a batch, and tokens in a sequence
MaxSeqs == 3

MaxSeqLen == 5

SeqLensValues == UNION {[1..n -> 0..MaxSeqLen] : n \in 0..MaxSeqs}

RECURSIVE cumsum(_)
cumsum(xs) ==
    IF xs = <<>> THEN <<>>
    ELSE LET n == Len(xs)
             front == cumsum(SubSeq(xs, 1, n - 1))
         IN  Append(front, (IF n = 1 THEN 0 ELSE front[n - 1]) + xs[n])

\* mutant: the offsets lack the leading 0
build_no_leading_zero(seq_lens) ==
    [seq_start_loc |-> cumsum(seq_lens),
     max_seq_len |-> IF seq_lens = <<>> THEN 0
                     ELSE CHOOSE m \in {seq_lens[i] : i \in 1..Len(seq_lens)} :
                            \A i \in 1..Len(seq_lens) : seq_lens[i] <= m]

\* build(sequenceLengths): prefix-sum offsets starting at 0, and the maximum
build(seq_lens) ==
    [seq_start_loc |-> cumsum(<<0>> \o seq_lens),
     max_seq_len |-> IF seq_lens = <<>> THEN 0
                     ELSE CHOOSE m \in {seq_lens[i] : i \in 1..Len(seq_lens)} :
                            \A i \in 1..Len(seq_lens) : seq_lens[i] <= m]

Build ==
    /\ \E seq_lens \in SeqLensValues :
        lastBuild' = {[seq_lens |-> seq_lens, metadata |-> build(seq_lens)]}
    /\ UNCHANGED <<selectorVars, implVars, workflowVars>>

NextBuilder == Build

RECURSIVE SumSeq(_)
SumSeq(xs) == IF xs = <<>> THEN 0 ELSE xs[1] + SumSeq(Tail(xs))

\* C7: for every sequence of non-negative lengths the offsets have one entry
\* more than there are sequences, start at 0, grow by exactly the i-th length
\* at step i (so never decrease), end at the total token count, and
\* max_seq_len is the largest length (0 and offsets <<0>> for the empty list).
C7_MetadataLayout ==
    \A b \in lastBuild :
        LET lens == b.seq_lens
            offs == b.metadata.seq_start_loc
        IN  /\ Len(offs) = Len(lens) + 1
            /\ offs[1] = 0
            /\ \A i \in 1..Len(lens) : offs[i + 1] - offs[i] = lens[i] /\ offs[i] <= offs[i + 1]
            /\ offs[Len(offs)] = SumSeq(lens)
            /\ \A i \in 1..Len(lens) : lens[i] <= b.metadata.max_seq_len
            /\ lens # <<>> => \E i \in 1..Len(lens) : lens[i] = b.metadata.max_seq_len
            /\ lens = <<>> => (offs = <<0>> /\ b.metadata.max_seq_len = 0)

C7_Witness ==
    \E b \in lastBuild :
        /\ b.seq_lens = <<3, 5, 2>>
        /\ b.metadata.seq_start_loc = <<0, 3, 8, 10>>
        /\ b.metadata.max_seq_len = 5

(***************************************************************************)
(* prefill_only/workflow.py                                                *)
(***************************************************************************)
WorkflowFields ==
    [InputProcessor |-> <<"vllm.wde.prefill_only.processor.input_processor:PrefillOnlyModelInputProcessor">>,
     RequestProcessor |-> <<"vllm.wde.prefill_only.processor.input_processor:PrefillOnlyModelRequestProcessor">>,
     OutputProcessor |-> <<"vllm.wde.prefill_only.processor.output_processor:PrefillOnlyModelOutputProcessor">>,
     ModelInputBuilder |-> <<"vllm.wde.prefill_only.processor.model_input_builder:PrefillOnlyModelInputBuilder">>,
     Worker |-> <<"vllm.wde.prefill_only.worker.gpu_worker:Worker">>,
     Executor |-> <<"vllm.wde.prefill_only.executor.gpu_executor">>,
     Scheduler |-> <<"vllm.wde.prefill_only.scheduler:PrefillOnlyScheduler">>,
     AttnBackend |-> <<"vllm.wde.prefill_only.layers.attention.selector:AttnBackend">>]

\* number of workflows a behaviour creates
MaxWorkflows == 3

SchedulingValues == {"sync", "async", "double_buffer", "offline", ""}

NoInstanceAttrs == [n \in {} |-> <<>>]

\* attribute lookup on an instance: its own __dict__, then the class
getattr(cls, inst, name) == IF name \in DOMAIN inst THEN inst[name] ELSE cls[name]

\* mutant: the suffix is appended to the class attribute
from_engine_class_attribute(cls, scheduling) ==
    IF scheduling \in {"sync"}
    THEN [cls |-> [cls EXCEPT !.Executor = cls.Executor \o <<":GPUExecutor">>],
          workflow |-> NoInstanceAttrs]
    ELSE IF scheduling \in {"async", "double_buffer"}
    THEN [cls |-> [cls EXCEPT !.Executor = cls.Executor \o <<":GPUAsyncExecutor">>],
          workflow |-> NoInstanceAttrs]
    ELSE [cls |-> cls, workflow |-> NoInstanceAttrs]

\* PrefillOnlyWorkflow.from_engine: the class afterwards and the __dict__ of
\* the returned instance
from_engine(cls, scheduling) ==
    IF scheduling \in {"sync"}
    THEN [cls |-> cls,
          workflow |-> [Executor |-> getattr(cls, NoInstanceAttrs, "Executor") \o <<":GPUExecutor">>]]
    ELSE IF scheduling \in {"async", "double_buffer"}
    THEN [cls |-> cls,
          workflow |-> [Executor |-> getattr(cls, NoInstanceAttrs, "Executor") \o <<":GPUAsyncExecutor">>]]
    ELSE [cls |-> cls, workflow |-> NoInstanceAttrs]

WorkflowFromEngine ==
    /\ Len(workflows) < MaxWorkflows
    /\ \E scheduling \in SchedulingValues :
        LET r == from_engine(WorkflowClass, scheduling)
        IN  /\ WorkflowClass' = r.cls
            /\ workflows' = Append(workflows, [scheduling |-> scheduling, dict |-> r.workflow])
    /\ UNCHANGED <<selectorVars, implVars, builderVars>>

NextWorkflow == WorkflowFromEngine

ExecutorSuffix(scheduling) ==
    IF scheduling = "sync" THEN <<":GPUExecutor">>
    ELSE IF scheduling \in {"async", "double_buffer"} THEN <<":GPUAsyncExecutor">>
    ELSE <<>>

\* C10: after any sequence of from_engine calls every returned workflow's
\* Executor is the base module path followed by exactly the one suffix its
\* scheduling selects (none for any other scheduling value), the class-level
\* Executor is still the base path, and every other field reads as declared.
C10_ExecutorSuffix ==
    /\ WorkflowClass = WorkflowFields
    /\ \A i \in 1..Len(workflows) :
        /\ getattr(WorkflowClass, workflows[i].dict, "Executor")
              = <<"vllm.wde.prefill_only.executor.gpu_executor">>
                    \o ExecutorSuffix(workflows[i].scheduling)
        /\ \A n \in DOMAIN WorkflowFields \ {"Executor"} :
              getattr(WorkflowClass, workflows[i].dict, n) = WorkflowFields[n]

C10_Witness ==
    /\ Len(workflows) = 3
    /\ workflows[1].scheduling = "sync"
    /\ workflows[2].scheduling = "sync"
    /\ workflows[3].scheduling = "offline"
    /\ Len(getattr(WorkflowClass, workflows[2].dict, "Executor")) = 2
    /\ Len(getattr(WorkflowClass, workflows[3].dict, "Executor")) = 1

Init ==
    /\ VLLM_ATTENTION_BACKEND \in OverrideValues
    /\ device_capability \in CapabilityValues
    /\ calls = <<>>
    /\ impl = {}
    /\ lastInit = {}
    /\ lastForward = {}
    /\ lastBuild = {}
    /\ WorkflowClass = WorkflowFields
    /\ workflows = <<>>

SpecSelector == Init /\ [][NextSelector]_vars

\* the process the layer-level specifications run in: no override, capability 8
InitDefaultProcess == Init /\ VLLM_ATTENTION_BACKEND = {} /\ device_capability = 8

SpecImpl == InitDefaultProcess /\ [][NextImpl]_vars

SpecBuilder == InitDefaultProcess /\ [][NextBuilder]_vars

SpecWorkflow == InitDefaultProcess /\ [][NextWorkflow]_vars

Next == NextSelector \/ NextImpl \/ NextBuilder \/ NextWorkflow

Spec == Init /\ [][Next]_vars

====
